---- MODULE Spec2Model ----
(***************************************************************************)
(* Model of the Bemonc7-rehab data layer:                                  *)
(*   - DataCache (src/src/lib/googleSheetsFetcher.ts, lines 198-377):      *)
(*     initialize / refresh / auto-refresh timer / read accessors;         *)
(*   - fetchAllGoogleSheets (same file, lines 106-166): parallel fetch,    *)
(*     merge and de-duplication of the sheet sources;                      *)
(*   - the blob cache of the sheet files (same file, lines 20-86, 171-187);*)
(*   - the handlers of GET /api/tasks (src/src/pages/api/tasks.ts) and of  *)
(*     GET /api/health (src/unnamed/part_001, lines 59-97).                *)
(*                                                                         *)
(* JavaScript runs each synchronous stretch of code to completion, and the *)
(* promise reactions a settlement queues (microtasks) run before any new   *)
(* request, timer or poll wake-up (macrotasks).  One action of this model  *)
(* is therefore one macrotask together with the microtasks it triggers.    *)
(***************************************************************************)
EXTENDS Integers, Sequences, FiniteSets, TLC

\* ------------------------------------------------------------- bounds
\* Number of concurrent callers (HTTP handlers) of the cache.
NumCallers == 2
\* Ingestion runs started over the cache's lifetime (logical clock).
MaxRuns == 3
\* Polls of a waiting refresh(): the code's 60 (line 245), scaled down.
MaxAttempts == 2

\* Calls of the setInterval callback that may be outstanding at once.
NumTicks == 2

\* Sheet sources fetched in parallel (SHEET_SOURCES lists one; the merge is
\* written for any number).
NumSources == 2
\* Rows one sheet yields, and distinct task ids over all sheets.
MaxRows == 2
NumIds == 2
\* Length of the task and site lists of the snapshots the readers are tried on.
MaxLen == 2
\* Distinct payloads the network may answer a sheet request with.
NumBlobs == 2

Callers == 1..NumCallers
\* Each outstanding call of the setInterval callback of startAutoRefresh is one
\* more invoker of refresh(): the slots 0, -1, ...
Ticks == (1 - NumTicks)..0
Procs == Callers \cup Ticks

\* ------------------------------------------------------------- values
\* `null` of `data: IngestedData | null`.
Null == [null |-> TRUE]

\* A handler of GET /api/tasks suspended at `await dataCache.initialize()`
\* (tasks.ts, line 22) with its query parameter site_uid, or none.
NoRequest == [on |-> FALSE]
Pending(site_uid) == [on |-> TRUE, site_uid |-> site_uid]

NoPromise == [st |-> "none", owner |-> 0]
ResolvedPromise == [st |-> "resolved", owner |-> 0]
PendingPromise(c) == [st |-> "pending", owner |-> c]

\* The snapshot one ingestion run builds (./data-ingestion is not among the
\* sources: the shape is IngestedData's, every part stamped with the run that
\* computed it, lastRefresh being the run's logical time).
IngestResult(n) ==
    [tasks |-> << [task_uid |-> 1, site_uid |-> "s1", run |-> n],
                  [task_uid |-> 2, site_uid |-> "s2", run |-> n],
                  [task_uid |-> 3, site_uid |-> "s1", run |-> n] >>,
     sites |-> << [site_uid |-> "s1", package_id |-> "p1", district |-> "d1", run |-> n],
                  [site_uid |-> "s2", package_id |-> "p1", district |-> "d2", run |-> n] >>,
     packageCompliance |-> [run |-> n],
     lastRefresh |-> n]

VARIABLES
    data,          \* DataCache.data: the stored snapshot, or Null
    refreshTimer,  \* DataCache.refreshTimer is set (the interval is armed)
    isRefreshing,  \* DataCache.isRefreshing
    initPromise,   \* DataCache.initPromise: none, pending (of its owner), resolved
    pc,            \* per invoker of refresh(): "idle", "run" (awaiting ingestAllSheets), "wait" (poll loop)
    attempts,      \* per invoker: the poll loop's `attempts`
    waitsOn,       \* per caller: the owner of the initPromise it awaits (itself for the starter), 0 if none
    pre,           \* per invoker: the snapshot stored when its ingestion run began
    lastInit,      \* how the latest initialization ended: "none" (none yet, or one in flight), "ok", "failed"
    nRuns,         \* ingestion runs started so far
    ev,            \* the last step taken, with what its callers observed
    fetched,       \* fetchAllGoogleSheets: per source, what its fetchSheetAsXLSX resolved with
    done,          \* fetchAllGoogleSheets: the sources in the order their fetches completed
    merged,        \* fetchAllGoogleSheets: idle, running, failed, or done with its result
    threw,         \* fetchAllGoogleSheets: the sources whose fetchSheetAsXLSX caught an error
    store,         \* the IndexedDB object store xlsx_files: per source URL the cached blob, 0 if none
    fx,            \* per source URL: the fetchAndCacheXLSX call in progress, if any
    fresh,         \* the URLs no fetch was called for since clearXLSXCache last succeeded
    req,           \* per caller: the GET /api/tasks request awaiting initialize(), if any
    stopped,       \* stopAutoRefresh() has been called and has returned
    intervals      \* setInterval calls made so far (set) and intervals not yet cleared (live)

cacheVars == <<data, refreshTimer, isRefreshing, initPromise>>
cacheState == <<data, refreshTimer, isRefreshing, initPromise, pc, attempts, waitsOn, pre, lastInit, nRuns, stopped, intervals>>
blobVars == <<store, fx, fresh>>
fetchVars == <<fetched, done, merged, threw, store, fx, fresh>>
vars == <<data, refreshTimer, isRefreshing, initPromise, pc, attempts, waitsOn, pre, lastInit, nRuns, ev,
          fetched, done, merged, threw, store, fx, fresh, req, stopped, intervals>>

Sources == 1..NumSources

\* Ingestion runs in flight (calls of ingestAllSheets not yet settled).
InFlight == {p \in Procs : pc[p] = "run"}

InitRest ==
    /\ refreshTimer = FALSE
    /\ isRefreshing = FALSE
    /\ initPromise = NoPromise
    /\ pc = [p \in Procs |-> "idle"]
    /\ attempts = [p \in Procs |-> 0]
    /\ waitsOn = [c \in Callers |-> 0]
    /\ pre = [p \in Procs |-> Null]
    /\ lastInit = "none"
    /\ nRuns = 0
    /\ ev = [kind |-> "init"]
    /\ fetched = [s \in Sources |-> <<>>]
    /\ done = <<>>
    /\ merged = [st |-> "idle"]
    /\ threw = {}
    /\ store = [u \in Sources |-> 0]
    /\ fx = [u \in Sources |-> [pc |-> "idle", blob |-> 0, first |-> FALSE]]
    /\ fresh = {}
    /\ req = [c \in Callers |-> NoRequest]
    /\ stopped = FALSE
    /\ intervals = [set |-> 0, live |-> 0]

Init ==
    /\ data = Null
    /\ InitRest

\* ------------------------------------------------------------- read accessors
\* `throw new Error('Cache not initialized')`.
NotInitialized == [out |-> "CacheNotInitialized", val |-> <<>>]
Returned(v) == [out |-> "ok", val |-> v]

\* An optional string parameter: <<>> is undefined, <<s>> is the string s.
\* JavaScript's truthiness test `if (x)` holds for a non-empty string only.
Truthy(x) == x # <<>> /\ x[1] # ""

\* getTasks (lines 293-298).
GetTasks(d) == IF d = Null THEN NotInitialized ELSE Returned(d.tasks)

\* getSites without its guard.
GetSitesUnguarded(d) == Returned(IF d = Null THEN <<>> ELSE d.sites)

\* getSites (lines 303-308).
GetSites(d) == IF d = Null THEN NotInitialized ELSE Returned(d.sites)

\* The district filter applied only when no package filter is.
GetFilteredSitesFirstOnly(d, filters) ==
    LET all == GetSites(d)
    IN IF all.out # "ok" THEN all
       ELSE IF Truthy(filters.packageId)
            THEN Returned(SelectSeq(all.val, LAMBDA s : s.package_id = filters.packageId[1]))
            ELSE IF Truthy(filters.district)
                 THEN Returned(SelectSeq(all.val, LAMBDA s : s.district = filters.district[1]))
                 ELSE all

\* getFilteredSites (lines 313-328).
GetFilteredSites(d, filters) ==
    LET all == GetSites(d)
    IN IF all.out # "ok" THEN all
       ELSE LET s1 == IF Truthy(filters.packageId)
                      THEN SelectSeq(all.val, LAMBDA s : s.package_id = filters.packageId[1])
                      ELSE all.val
                s2 == IF Truthy(filters.district)
                      THEN SelectSeq(s1, LAMBDA s : s.district = filters.district[1])
                      ELSE s1
            IN Returned(s2)

\* getTasksBySite (lines 333-335).
GetTasksBySite(d, siteUid) ==
    LET all == GetTasks(d)
    IN IF all.out # "ok" THEN all
       ELSE Returned(SelectSeq(all.val, LAMBDA t : t.site_uid = siteUid))

\* getData (lines 340-345).
GetData(d) == IF d = Null THEN NotInitialized ELSE Returned(d)

\* getPackageCompliance (lines 350-355).
GetPackageCompliance(d) == IF d = Null THEN NotInitialized ELSE Returned(d.packageCompliance)

\* isInitialized answering false for as long as a refresh is in flight.
IsInitializedWhenIdle(d) == d # Null /\ ~isRefreshing

\* isInitialized (lines 360-362).
IsInitialized(d) == d # Null

\* GET /api/tasks once the cache is initialized (tasks.ts, lines 33-59): the
\* tasks and lastRefresh are read in one synchronous stretch.  Line 33 is reached
\* with isInitialized() true or after initialize() resolved.
TasksResponse(d, site_uid) ==
    LET tasks == IF Truthy(site_uid) THEN GetTasksBySite(d, site_uid[1]) ELSE GetTasks(d)
    IN IF tasks.out # "ok"
       THEN [status |-> 503, error |-> "Cache error"]
       ELSE IF GetData(d).out # "ok"
       THEN [status |-> 500, error |-> "Failed to fetch tasks"]
       ELSE [status |-> 200, data |-> tasks.val, count |-> Len(tasks.val),
             lastRefresh |-> GetData(d).val.lastRefresh]

\* The read accessors the read part of the handler calls (lines 37-41 and 58).
TasksAccessed(d, site_uid) ==
    LET first == IF Truthy(site_uid) THEN "getTasksBySite" ELSE "getTasks"
        tasks == IF Truthy(site_uid) THEN GetTasksBySite(d, site_uid[1]) ELSE GetTasks(d)
    IN IF tasks.out # "ok" THEN {first} ELSE {first, "getData"}

\* The handler going on to its read part whatever initialize() did.
TasksAfterInitUnchecked(d, o, site_uid) ==
    [resp |-> TasksResponse(d, site_uid), accessed |-> TasksAccessed(d, site_uid)]

\* The handler resumed after `await dataCache.initialize()` settled with
\* outcome o (tasks.ts, lines 21-59): the catch block answers 503, else the read
\* part runs on the snapshot d stored by then.
TasksAfterInit(d, o, site_uid) ==
    IF o.out # "ok"
    THEN [resp |-> [status |-> 503, error |-> "Service initializing"], accessed |-> {}]
    ELSE [resp |-> TasksResponse(d, site_uid), accessed |-> TasksAccessed(d, site_uid)]

\* ------------------------------------------------------------- refresh()
\* refresh() without the isRefreshing test of line 241.
RefreshEnterUnguarded(p) ==
    /\ nRuns < MaxRuns
    /\ isRefreshing' = TRUE
    /\ pc' = [pc EXCEPT ![p] = "run"]
    /\ pre' = [pre EXCEPT ![p] = data]
    /\ nRuns' = nRuns + 1
    /\ UNCHANGED attempts

\* refresh() up to its first await (lines 241-257): join the poll loop when a
\* refresh is in flight, else set the flag and call ingestAllSheets.
RefreshEnter(p) ==
    IF isRefreshing
    THEN /\ pc' = [pc EXCEPT ![p] = "wait"]
         /\ attempts' = [attempts EXCEPT ![p] = 0]
         /\ UNCHANGED <<isRefreshing, nRuns, pre>>
    ELSE /\ nRuns < MaxRuns
         /\ isRefreshing' = TRUE
         /\ pc' = [pc EXCEPT ![p] = "run"]
         /\ pre' = [pre EXCEPT ![p] = data]
         /\ nRuns' = nRuns + 1
         /\ UNCHANGED attempts

\* refresh() returning this.data after the poll loop whatever it is.
WaitOutcomeUnchecked(d) == [out |-> "ok", snap |-> d]

\* What refresh() gives its caller after the poll loop (lines 249-250).
WaitOutcome(d) ==
    IF d # Null THEN [out |-> "ok", snap |-> d]
    ELSE [out |-> "RefreshTimeout", snap |-> Null]

\* The catch block of refresh() rethrowing whatever is cached.
FailOutcomeRethrow(d) == [out |-> "CacheRefreshFailed", snap |-> Null]

\* The catch block of refresh() returning this.data whatever it is.
FailOutcomeSwallow(d) == [out |-> "ok", snap |-> d]

\* What refresh() gives its caller when ingestAllSheets rejects (lines 261-268).
FailOutcome(d) ==
    IF d = Null THEN [out |-> "CacheRefreshFailed", snap |-> Null]
    ELSE [out |-> "ok", snap |-> d]

\* The stored snapshot updated in place, the aggregates left for later.
StoreSnapshotInPlace(old, newData) ==
    IF old = Null THEN newData
    ELSE [old EXCEPT !.tasks = newData.tasks, !.lastRefresh = newData.lastRefresh]

\* The snapshot stored once ingestAllSheets resolved with newData (line 258).
StoreSnapshot(old, newData) == newData

\* startAutoRefresh (lines 277-288): clear a set interval, set a new one.
StartAutoRefresh ==
    /\ refreshTimer' = TRUE
    /\ intervals' = [set |-> intervals.set + 1,
                     live |-> (IF refreshTimer THEN intervals.live - 1 ELSE intervals.live) + 1]

\* initPromise after a failed initialization left as it is.
InitPromiseKept == initPromise

\* initPromise after a failed initialization (line 229).
InitPromiseAfterFailure == NoPromise

\* Which call of refresh() settles: the timer's, initialize()'s, or a direct one.
Via(p) ==
    IF p \in Ticks THEN "timer"
    ELSE IF waitsOn[p] = p THEN "initialize" ELSE "refresh"

\* The callers awaiting the initPromise that p owns (p, the starter, among them).
Joined(p) == {c \in Callers : waitsOn[c] = p}

\* Only the starter of the initialization hears of its settlement.
RecipientsStarterOnly(p) ==
    IF p \in Ticks THEN {} ELSE {p}

\* The callers that observe the settlement of p's refresh(): nobody awaits the
\* timer callback's call (line 284), a direct caller awaits its own, and the
\* settlement of initialize()'s call settles initPromise, which the starter and
\* every joined caller await (lines 217 and 234).
Recipients(p) ==
    IF p \in Ticks THEN {}
    ELSE IF waitsOn[p] = p THEN Joined(p) ELSE {p}

\* What each of them observes: initialize() resolves with nothing or rethrows
\* refresh()'s error (line 230), refresh() returns a snapshot or throws.
Observed(p, o) ==
    [c \in Recipients(p) |->
        [op |-> IF Via(p) = "initialize" THEN "initialize" ELSE "refresh",
         out |-> o.out, snap |-> o.snap]]

\* The suspended tasks handlers that the settlement of p's refresh() resumes.
Answered(p) == {c \in Recipients(p) : req[c].on}

\* What each of them answers, and the requests left suspended.
TasksAnswers(p, o, d) ==
    [c \in Answered(p) |-> TasksAfterInit(d, o, req[c].site_uid)]

Resumed(p) ==
    [c \in Callers |-> IF c \in Answered(p) THEN NoRequest ELSE req[c]]

\* The interval armed whether or not the first refresh() succeeded.
ArmsTimerAlways(o) == TRUE

\* initialize() reaches startAutoRefresh (line 225) only when the awaited
\* refresh() of line 224 did not throw.
ArmsTimer(o) == o.out = "ok"

\* The cache's fields once p's refresh() settled with outcome o.  For the
\* initialization (lines 221-232) success arms the timer and resolves
\* initPromise, failure resets initPromise and rejects it.
Deliver(p, o) ==
    IF Via(p) = "initialize"
    THEN /\ waitsOn' = [c \in Callers |-> IF c \in Recipients(p) \cup {p} THEN 0 ELSE waitsOn[c]]
         /\ IF ArmsTimer(o) THEN StartAutoRefresh ELSE UNCHANGED <<refreshTimer, intervals>>
         /\ IF o.out = "ok"
            THEN initPromise' = ResolvedPromise /\ lastInit' = "ok"
            ELSE initPromise' = InitPromiseAfterFailure /\ lastInit' = "failed"
    ELSE UNCHANGED <<waitsOn, initPromise, refreshTimer, lastInit, intervals>>

\* The flag cleared on the success path only.
FlagAfterRunOnSuccess(ok) == ~ok

\* isRefreshing once ingestAllSheets settled: the finally block (lines 269-271)
\* clears it on the success and on the failure path.
FlagAfterRun(ok) == FALSE

\* A caller starts refresh() directly.
RefreshCall(c) ==
    /\ UNCHANGED <<fetchVars, req>>
    /\ pc[c] = "idle" /\ waitsOn[c] = 0
    /\ RefreshEnter(c)
    /\ ev' = [kind |-> "refreshCall", who |-> c]
    /\ UNCHANGED <<data, refreshTimer, initPromise, waitsOn, lastInit, stopped, intervals>>

\* ingestAllSheets settles for the run p awaits (lines 257-271).
IngestDone(p, ok) ==
    /\ UNCHANGED fetchVars
    /\ pc[p] = "run"
    /\ pc' = [pc EXCEPT ![p] = "idle"]
    /\ pre' = [pre EXCEPT ![p] = Null]
    /\ isRefreshing' = FlagAfterRun(ok)
    /\ LET newData == IngestResult(nRuns)
           o == IF ok THEN [out |-> "ok", snap |-> newData] ELSE FailOutcome(data)
           d == IF ok THEN StoreSnapshot(data, newData) ELSE data
       IN /\ data' = d
          /\ Deliver(p, o)
          /\ req' = Resumed(p)
          /\ ev' = [kind |-> "ingestDone", who |-> p, via |-> Via(p), ok |-> ok,
                    awaiting |-> {c \in Callers : waitsOn[c] # 0}, pre |-> pre[p], out |-> o.out, snap |-> o.snap, got |-> Observed(p, o),
                    answers |-> TasksAnswers(p, o, d)]
    /\ UNCHANGED <<attempts, nRuns, stopped>>

\* The wait loop going on for as long as the flag is set.
KeepsWaitingUnbounded(n) == isRefreshing

\* The loop test of line 245 after n sleeps: `this.isRefreshing && attempts < 60`.
KeepsWaiting(n) == isRefreshing /\ n < MaxAttempts

\* A waiting refresh() wakes from its one-second sleep (lines 245-250).
Poll(p) ==
    /\ UNCHANGED fetchVars
    /\ pc[p] = "wait"
    /\ LET n == attempts[p] + 1
           o == WaitOutcome(data)
       IN IF KeepsWaiting(n)
          THEN /\ attempts' = [attempts EXCEPT ![p] = n]
               /\ ev' = [kind |-> "poll", who |-> p]
               /\ UNCHANGED <<pc, waitsOn, initPromise, refreshTimer, lastInit, req, intervals>>
          ELSE /\ attempts' = [attempts EXCEPT ![p] = 0]
               /\ pc' = [pc EXCEPT ![p] = "idle"]
               /\ Deliver(p, o)
               /\ req' = Resumed(p)
               /\ ev' = [kind |-> "waitDone", who |-> p, via |-> Via(p), expired |-> isRefreshing,
                         polls |-> n, out |-> o.out, snap |-> o.snap, got |-> Observed(p, o),
                         answers |-> TasksAnswers(p, o, data)]
    /\ UNCHANGED <<data, isRefreshing, pre, nRuns, stopped>>

\* ------------------------------------------------------------- initialize()
\* `if (this.initPromise)` never taken.
HasInitPromiseNever == FALSE

\* `if (this.initPromise)` (line 215): a pending or a resolved promise is kept.
HasInitPromise == initPromise.st # "none"

\* The early return of initialize() never taken.
AlreadyInitializedNever == FALSE

\* `if (this.data !== null) return` (lines 209-212).
AlreadyInitialized == data # Null

\* initialize() up to its first await (lines 207-235).
InitializeEnter(c) ==
    /\ UNCHANGED fetchVars
    /\ pc[c] = "idle" /\ waitsOn[c] = 0
    /\ IF AlreadyInitialized
       THEN /\ ev' = [kind |-> "initializeCall", who |-> c, how |-> "noop"]
            /\ UNCHANGED <<initPromise, waitsOn, pc, attempts, isRefreshing, nRuns, pre, lastInit>>
       ELSE IF HasInitPromise
       THEN /\ IF initPromise.st = "pending"
               THEN /\ waitsOn' = [waitsOn EXCEPT ![c] = initPromise.owner]
                    /\ ev' = [kind |-> "initializeCall", who |-> c, how |-> "joined"]
               ELSE /\ ev' = [kind |-> "initializeCall", who |-> c, how |-> "resolved"]
                    /\ UNCHANGED waitsOn
            /\ UNCHANGED <<initPromise, pc, attempts, isRefreshing, nRuns, pre, lastInit>>
       ELSE /\ initPromise' = PendingPromise(c)
            /\ waitsOn' = [waitsOn EXCEPT ![c] = c]
            /\ lastInit' = "none"
            /\ RefreshEnter(c)
            /\ ev' = [kind |-> "initializeCall", who |-> c, how |-> "started"]
    /\ UNCHANGED <<data, refreshTimer, stopped, intervals>>

\* A caller other than the tasks handler calls initialize() (the warm-up route,
\* the server start-up).
InitializeCall(c) ==
    /\ InitializeEnter(c)
    /\ UNCHANGED req

\* ------------------------------------------------------------- timer
\* The interval fires (lines 282-285): the callback calls refresh().
TimerTick(t) ==
    /\ UNCHANGED <<fetchVars, req>>
    /\ refreshTimer
    /\ pc[t] = "idle"
    /\ \A u \in Ticks : u > t => pc[u] # "idle"
    /\ RefreshEnter(t)
    /\ ev' = [kind |-> "tick", who |-> t]
    /\ UNCHANGED <<data, refreshTimer, initPromise, waitsOn, lastInit, stopped, intervals>>

\* A stop that sets the handle whenever none was set.
TimerAfterStopToggle(t) == ~t

\* The timer handle after `if (this.refreshTimer) { clearInterval(...);
\* this.refreshTimer = null }` (lines 368-371).
TimerAfterStop(t) == FALSE

\* stopAutoRefresh (lines 367-373).
StopAutoRefresh ==
    /\ UNCHANGED <<fetchVars, req>>
    /\ refreshTimer' = TimerAfterStop(refreshTimer)
    /\ intervals' = [intervals EXCEPT !.live = IF refreshTimer THEN @ - 1 ELSE @]
    /\ stopped' = TRUE
    /\ ev' = [kind |-> "stop", was |-> refreshTimer]
    /\ UNCHANGED <<data, isRefreshing, initPromise, pc, attempts, waitsOn, pre, lastInit, nRuns>>

\* ------------------------------------------------------------- readers
Accessors == {"getTasks", "getTasksBySite", "getSites", "getFilteredSites",
              "getPackageCompliance", "getData"}

\* The arguments the readers of this specification pass.
ReadSite == "s1"
ReadFilters == [packageId |-> <<"p1">>, district |-> <<"d2">>]

\* One accessor call on the snapshot d.
Access(acc, d) ==
    CASE acc = "getTasks" -> GetTasks(d)
      [] acc = "getTasksBySite" -> GetTasksBySite(d, ReadSite)
      [] acc = "getSites" -> GetSites(d)
      [] acc = "getFilteredSites" -> GetFilteredSites(d, ReadFilters)
      [] acc = "getPackageCompliance" -> GetPackageCompliance(d)
      [] acc = "getData" -> GetData(d)

\* A read accessor that starts the first ingestion itself when nothing is cached.
ReadEffectLazy ==
    IF data = Null /\ ~isRefreshing /\ nRuns < MaxRuns
    THEN /\ isRefreshing' = TRUE
         /\ nRuns' = nRuns + 1
         /\ UNCHANGED <<data, refreshTimer, initPromise, pc, attempts, waitsOn, pre, lastInit, stopped, intervals>>
    ELSE UNCHANGED cacheState

\* What the read accessors and isInitialized do to the cache: nothing (lines
\* 293-362 assign no field and call neither refresh() nor initialize()).
ReadEffect == UNCHANGED cacheState

\* A reader calls isInitialized() and every accessor in one synchronous stretch.
Read ==
    /\ UNCHANGED <<fetchVars, req>>
    /\ ev' = [kind |-> "read",
              initialized |-> IsInitialized(data),
              got |-> [acc \in Accessors |-> Access(acc, data)]]
    /\ ReadEffect

\* GET /api/tasks with the cache initialized (tasks.ts, lines 13-19 and 33-59).
TasksRead(site_uid) ==
    /\ UNCHANGED <<fetchVars, req>>
    /\ IsInitialized(data)
    /\ ev' = [kind |-> "tasksRead", resp |-> TasksResponse(data, site_uid)]
    /\ ReadEffect

Methods == {"GET", "POST", "DELETE"}

\* /api/tasks called with another method than GET (tasks.ts, lines 13-15).
TasksReject(method) ==
    /\ UNCHANGED <<fetchVars, req>>
    /\ method # "GET"
    /\ ev' = [kind |-> "tasksReject", method |-> method,
              resp |-> [status |-> 405, error |-> "Method not allowed"], accessed |-> {}]
    /\ UNCHANGED cacheState

\* GET /api/tasks with the cache not initialized (tasks.ts, lines 13-22): the
\* handler calls initialize() and is suspended until initPromise settles.
TasksInitialize(c, site_uid) ==
    /\ ~IsInitialized(data)
    /\ ~req[c].on
    /\ InitializeEnter(c)
    /\ req' = [req EXCEPT ![c] = IF waitsOn'[c] # 0 THEN Pending(site_uid) ELSE @]

\* GET /api/health (unnamed/part_001, lines 67-96): 503 unless isInitialized(),
\* 500 when getData() throws, else 200 with the statistics of the snapshot.
HealthResponse(d) ==
    IF ~IsInitialized(d)
    THEN [status |-> 503, health |-> "initializing"]
    ELSE IF GetData(d).out # "ok"
    THEN [status |-> 500, health |-> "unhealthy"]
    ELSE [status |-> 200, health |-> "healthy", lastRefresh |-> GetData(d).val.lastRefresh]

\* The health handler (unnamed/part_001, lines 59-97).
HealthRequest(method) ==
    /\ UNCHANGED <<fetchVars, req>>
    /\ ev' = [kind |-> "health", method |-> method,
              resp |-> IF method # "GET"
                       THEN [status |-> 405, health |-> "Method not allowed"]
                       ELSE HealthResponse(data)]
    /\ UNCHANGED cacheState

Next ==
    \/ \E c \in Callers : InitializeCall(c)
    \/ \E c \in Callers : RefreshCall(c)
    \/ \E p \in Procs, ok \in BOOLEAN : IngestDone(p, ok)
    \/ \E p \in Procs : Poll(p)
    \/ \E t \in Ticks : TimerTick(t)
    \/ StopAutoRefresh
    \/ Read
    \/ \E q \in {<<>>, <<"s1">>} : TasksRead(q)
    \/ \E m \in Methods : TasksReject(m)
    \/ \E c \in Callers, q \in {<<>>, <<"s1">>} : TasksInitialize(c, q)
    \/ \E m \in Methods : HealthRequest(m)

Spec == Init /\ [][Next]_vars

\* The cache driven through initialize() alone: no caller calls refresh() itself.
NextInit ==
    \/ \E c \in Callers : InitializeCall(c)
    \/ \E p \in Procs, ok \in BOOLEAN : IngestDone(p, ok)
    \/ \E p \in Procs : Poll(p)
    \/ \E t \in Ticks : TimerTick(t)
    \/ StopAutoRefresh
    \/ Read

SpecInit == Init /\ [][NextInit]_vars

\* The timeouts of the wait loop fire (setTimeout, line 246): a waiting
\* refresh() is woken, whatever else happens or does not happen.
SpecLive == Spec /\ \A p \in Procs : WF_vars(Poll(p))

\* Every call of ingestAllSheets settles, with a result or with an error.
SpecSettling == Spec /\ \A p \in Procs : WF_vars(\E ok \in BOOLEAN : IngestDone(p, ok))

\* ------------------------------------------------------------- readers on any snapshot
SiteNames == <<"s1", "s2", "s3", "s4">>

\* The task lists and site lists the filters are tried on: every list of at most
\* MaxLen tasks over two sites, and of at most MaxLen sites over two packages
\* and two districts.
TaskLists ==
    UNION {{[i \in 1..n |-> [task_uid |-> i, site_uid |-> f[i], run |-> 1]] :
                f \in [1..n -> {"s1", "s2"}]} : n \in 0..MaxLen}

SiteLists ==
    UNION {{[i \in 1..n |-> [site_uid |-> SiteNames[i], package_id |-> f[i][1],
                              district |-> f[i][2], run |-> 1]] :
                f \in [1..n -> {"p1", "p2"} \X {"d1", "d2"}]} : n \in 0..MaxLen}

ReadSnapshots ==
    {[tasks |-> t, sites |-> s, packageCompliance |-> [run |-> 1], lastRefresh |-> 1] :
        t \in TaskLists, s \in SiteLists}

\* An optional string argument: absent, empty, or one of S.
Optional(S) == {<<>>, <<"">>} \cup {<<x>> : x \in S}

FilterArgs == [packageId : Optional({"p1", "p2"}), district : Optional({"d1"})]

InitRead ==
    /\ data \in ReadSnapshots
    /\ InitRest

\* A reader calls getTasksBySite(x).
ReadBySite(x) ==
    /\ UNCHANGED <<fetchVars, req>>
    /\ ev' = [kind |-> "bySite", arg |-> x, got |-> GetTasksBySite(data, x)]
    /\ ReadEffect

\* A reader calls getFilteredSites(f).
ReadFiltered(f) ==
    /\ UNCHANGED <<fetchVars, req>>
    /\ ev' = [kind |-> "filtered", arg |-> f, got |-> GetFilteredSites(data, f)]
    /\ ReadEffect

NextRead ==
    \/ \E x \in {"s1", "s2", "s3", ""} : ReadBySite(x)
    \/ \E f \in FilterArgs : ReadFiltered(f)

SpecRead == InitRead /\ [][NextRead]_vars

\* ------------------------------------------------------------- fetchAllGoogleSheets
\* The task rows fetchSheetAsXLSX resolves with for source s whose sheet lists
\* the task ids uids (lines 111-125: fetch, parse, status): src and row stand for
\* the field values that tell one sheet's record of a task from another's.
ParsedRows(s, uids) ==
    [i \in 1..Len(uids) |->
        [task_uid |-> uids[i], site_uid |-> IF uids[i] % 2 = 1 THEN "s1" ELSE "s2",
         weight |-> i, src |-> s, row |-> i]]

\* What the sheets may list: at most MaxRows task ids each.
UidSeqs == UNION {[1..n -> 1..NumIds] : n \in 0..MaxRows}

RECURSIVE Flat(_)
\* Array.prototype.flat on the per-source results (line 145).
Flat(seqs) == IF seqs = <<>> THEN <<>> ELSE Head(seqs) \o Flat(Tail(seqs))

\* The results read in the order the fetches completed.
PromiseAllByCompletion == [i \in 1..NumSources |-> fetched[done[i]]]

\* Promise.all (lines 140-142): the results in the order of SHEET_SOURCES,
\* whatever the order the promises settled in.
PromiseAll == [i \in 1..NumSources |-> fetched[i]]

RECURSIVE DedupInto(_, _)
\* The taskMap loop (lines 149-156): a Map keeps its keys in insertion order,
\* and a task whose task_uid is already a key is skipped.
DedupInto(acc, tasks) ==
    IF tasks = <<>> THEN acc
    ELSE LET t == Head(tasks)
             has == \E i \in 1..Len(acc) : acc[i].task_uid = t.task_uid
         IN DedupInto(IF has THEN acc ELSE Append(acc, t), Tail(tasks))

Dedup(tasks) == DedupInto(<<>>, tasks)

\* normalizeSiteWeights (./dataProcessor is not among the sources): each task's
\* weight becomes its share <<weight, total>> of its site's total weight; the
\* tasks, their order and their other fields stay.
RECURSIVE SumWeights(_, _)
SumWeights(tasks, site) ==
    IF tasks = <<>> THEN 0
    ELSE (IF Head(tasks).site_uid = site THEN Head(tasks).weight ELSE 0)
         + SumWeights(Tail(tasks), site)

NormalizeSiteWeights(tasks) ==
    [i \in 1..Len(tasks) |->
        [tasks[i] EXCEPT !.weight = <<tasks[i].weight, SumWeights(tasks, tasks[i].site_uid)>>]]

\* fetchAllGoogleSheets is called (lines 135-142): one fetchSheetAsXLSX per source starts.
FetchAllCall ==
    /\ merged.st # "running"
    /\ merged' = [st |-> "running"]
    /\ fetched' = [s \in Sources |-> <<>>]
    /\ done' = <<>>
    /\ threw' = {}
    /\ UNCHANGED <<cacheState, req, ev, blobVars>>

\* fetchSheetAsXLSX without its try/catch: an error rejects its promise.
SheetResultRethrow(s, ok, uids) ==
    IF ok THEN [st |-> "fulfilled", rows |-> ParsedRows(s, uids)]
    ELSE [st |-> "rejected", rows |-> <<>>]

\* How the promise of fetchSheetAsXLSX(s) settles (lines 107-129): fulfilled
\* with the parsed rows, or, when the fetch, the parse or the status
\* computation threw (ok is false), fulfilled with [] by the catch.
SheetResult(s, ok, uids) ==
    [st |-> "fulfilled", rows |-> IF ok THEN ParsedRows(s, uids) ELSE <<>>]

\* fetchSheetAsXLSX(s) settles (lines 106-130).  Promise.all rejects, and
\* fetchAllGoogleSheets with it, as soon as one of its promises rejects.
FetchSheetDone(s, ok, uids) ==
    /\ merged.st = "running"
    /\ \A i \in 1..Len(done) : done[i] # s
    /\ LET r == SheetResult(s, ok, uids)
       IN /\ fetched' = [fetched EXCEPT ![s] = r.rows]
          /\ merged' = IF r.st = "rejected" THEN [st |-> "failed"] ELSE merged
    /\ threw' = IF ok THEN threw ELSE threw \cup {s}
    /\ done' = Append(done, s)
    /\ UNCHANGED <<cacheState, req, ev, blobVars>>

\* Promise.all resolved: flatten, de-duplicate, normalise (lines 145-165).
MergeAll ==
    /\ merged.st = "running"
    /\ Len(done) = NumSources
    /\ LET uniqueTasks == Dedup(Flat(PromiseAll))
       IN merged' = [st |-> "done", uniqueTasks |-> uniqueTasks,
                     normalizedTasks |-> NormalizeSiteWeights(uniqueTasks)]
    /\ UNCHANGED <<cacheState, req, ev, fetched, done, threw, blobVars>>

NextFetch ==
    \/ FetchAllCall
    \/ \E s \in Sources, uids \in UidSeqs : FetchSheetDone(s, TRUE, uids)
    \/ \E s \in Sources : FetchSheetDone(s, FALSE, <<>>)
    \/ MergeAll

SpecFetch == Init /\ [][NextFetch]_vars

\* ------------------------------------------------------------- the XLSX blob cache
\* The source URLs are the keys of the store: one per sheet source.
Blobs == 1..NumBlobs

\* How IndexedDB behaves for one helper call: it works, indexedDB.open fires
\* onerror, or the get / put / clear request fires onerror.
IdbOutcomes == {"ok", "openError", "requestError"}

Fulfilled(v) == [st |-> "fulfilled", val |-> v]
Rejected(e) == [st |-> "rejected", val |-> e]

\* getCachedFile (lines 34-48).  `await openDB()` is inside the try, so a
\* failure to open is caught and gives null.  The promise that wraps the get
\* request is returned without await: its rejection (request.onerror, line 41)
\* is not caught by the catch and rejects getCachedFile.  `request.result ||
\* null` is the stored blob or null (0 here).
GetCachedFile(st, url, idb) ==
    IF idb = "openError" THEN Fulfilled(0)
    ELSE IF idb = "requestError" THEN Rejected("CacheReadError")
    ELSE Fulfilled(st[url])

\* setCachedFile (lines 50-63): as getCachedFile; val tells whether the blob
\* was put.
SetCachedFile(idb) ==
    IF idb = "openError" THEN Fulfilled(FALSE)
    ELSE IF idb = "requestError" THEN Rejected("CacheWriteError")
    ELSE Fulfilled(TRUE)

\* clearXLSXCache (lines 171-187): val tells whether the store was cleared.
ClearXLSXCacheResult(idb) ==
    IF idb = "openError" THEN Fulfilled(FALSE)
    ELSE IF idb = "requestError" THEN Rejected("CacheClearError")
    ELSE Fulfilled(TRUE)

Idle == [pc |-> "idle", blob |-> 0, first |-> FALSE]

\* fetchAndCacheXLSX(url) is called (line 65-67) and awaits getCachedFile.  The
\* call is first when it is the first for url since clearXLSXCache succeeded.
BlobFetchCall(url) ==
    /\ fx[url].pc = "idle"
    /\ fx' = [fx EXCEPT ![url] = [pc |-> "get", blob |-> 0, first |-> url \in fresh]]
    /\ fresh' = fresh \ {url}
    /\ ev' = [kind |-> "fetchCall", url |-> url]
    /\ UNCHANGED <<cacheState, req, fetched, done, merged, threw, store>>

\* getCachedFile settles (lines 67-73): a hit returns the cached blob, a miss
\* goes on to the network, a rejection rejects fetchAndCacheXLSX.
BlobLookup(url, idb) ==
    /\ fx[url].pc = "get"
    /\ LET cached == GetCachedFile(store, url, idb)
           call == fx[url]
       IN IF cached.st = "rejected"
          THEN /\ fx' = [fx EXCEPT ![url] = Idle]
               /\ ev' = [kind |-> "lookup", url |-> url, idb |-> idb, first |-> call.first,
                         done |-> TRUE, out |-> cached.val, blob |-> 0, network |-> "none"]
          ELSE IF cached.val # 0
          THEN /\ fx' = [fx EXCEPT ![url] = Idle]
               /\ ev' = [kind |-> "lookup", url |-> url, idb |-> idb, first |-> call.first,
                         done |-> TRUE, out |-> "ok", blob |-> cached.val, network |-> "none"]
          ELSE /\ fx' = [fx EXCEPT ![url] = [call EXCEPT !.pc = "net"]]
               /\ ev' = [kind |-> "lookup", url |-> url, idb |-> idb, first |-> call.first,
                         done |-> FALSE, out |-> "pending", blob |-> 0, network |-> "none"]
    /\ UNCHANGED <<cacheState, req, fetched, done, merged, threw, store, fresh>>

\* The network request settles (lines 74-79): fetch() rejects, the response is
\* not ok, or its blob b arrives.
BlobNetwork(url, resp, b) ==
    /\ fx[url].pc = "net"
    /\ IF resp = "ok"
       THEN /\ fx' = [fx EXCEPT ![url] = [@ EXCEPT !.pc = "put", !.blob = b]]
            /\ ev' = [kind |-> "response", url |-> url, first |-> fx[url].first,
                      done |-> FALSE, out |-> "pending", blob |-> b, network |-> resp]
       ELSE /\ fx' = [fx EXCEPT ![url] = Idle]
            /\ ev' = [kind |-> "response", url |-> url, first |-> fx[url].first,
                      done |-> TRUE, out |-> resp, blob |-> 0, network |-> resp]
    /\ UNCHANGED <<cacheState, req, fetched, done, merged, threw, store, fresh>>

\* setCachedFile settles (lines 82-85).
BlobStore(url, idb) ==
    /\ fx[url].pc = "put"
    /\ LET put == SetCachedFile(idb)
           b == fx[url].blob
           stored == put.st = "fulfilled" /\ put.val
       IN /\ store' = IF stored THEN [store EXCEPT ![url] = b] ELSE store
          /\ ev' = [kind |-> "put", url |-> url, idb |-> idb, first |-> fx[url].first,
                    done |-> TRUE, out |-> IF put.st = "rejected" THEN put.val ELSE "ok",
                    blob |-> b, network |-> "ok"]
    /\ fx' = [fx EXCEPT ![url] = Idle]
    /\ UNCHANGED <<cacheState, req, fetched, done, merged, threw, fresh>>

\* clearXLSXCache runs (lines 171-187).
BlobClear(idb) ==
    /\ LET r == ClearXLSXCacheResult(idb)
           cleared == r.st = "fulfilled" /\ r.val
       IN /\ store' = IF cleared THEN [u \in Sources |-> 0] ELSE store
          /\ fresh' = IF cleared THEN Sources ELSE fresh
          /\ ev' = [kind |-> "clear", out |-> IF r.st = "rejected" THEN r.val ELSE "ok", idb |-> idb]
    /\ UNCHANGED <<cacheState, req, fetched, done, merged, threw, fx>>

NextBlob ==
    \/ \E u \in Sources : BlobFetchCall(u)
    \/ \E u \in Sources, idb \in IdbOutcomes : BlobLookup(u, idb)
    \/ \E u \in Sources, resp \in {"ok", "httpError", "networkError"}, b \in Blobs : BlobNetwork(u, resp, b)
    \/ \E u \in Sources, idb \in IdbOutcomes : BlobStore(u, idb)
    \/ \E idb \in IdbOutcomes : BlobClear(idb)

SpecBlob == Init /\ [][NextBlob]_vars

\* ============================================================= claims

\* An initialization settled in the last step.
InitSettled == ev.kind \in {"ingestDone", "waitDone"} /\ ev.via = "initialize"

\* C1: under every interleaving of initialize() calls on a cache with no
\* snapshot, one initialization is in flight at most, it runs exactly one
\* ingestion (its own, the only one in flight from its start to its settlement),
\* every caller that called meanwhile awaits that same initialization, and all of
\* them observe its one outcome: resolved with the snapshot it stored, or the one
\* failure.
C1_SingleFlightInit ==
    /\ initPromise.st = "pending" =>
          /\ data = Null
          /\ waitsOn[initPromise.owner] = initPromise.owner
          /\ pc[initPromise.owner] = "run"
          /\ InFlight = {initPromise.owner}
    /\ \A c \in Callers : waitsOn[c] # 0 => initPromise = PendingPromise(waitsOn[c])
    /\ InitSettled =>
          /\ ev.kind = "ingestDone"
          /\ DOMAIN ev.got = ev.awaiting
          /\ \A c \in ev.awaiting : waitsOn[c] = 0
          /\ \A c \in DOMAIN ev.got :
                /\ ev.got[c].op = "initialize"
                /\ ev.got[c].out = (IF ev.ok THEN "ok" ELSE "CacheRefreshFailed")
                /\ ev.got[c].snap = (IF ev.ok THEN data ELSE Null)
          /\ ev.ok <=> data # Null

\* Two callers awaited one initialization, and it resolved for both.
C1_Witness ==
    /\ ev.kind = "ingestDone" /\ ev.via = "initialize" /\ ev.ok
    /\ Cardinality(DOMAIN ev.got) >= 2
    /\ nRuns = 1

\* C2: in every reachable state at most one ingestion run is in flight, whoever
\* called refresh() (a caller, initialize() or the timer) and also once a
\* waiting caller's polls are used up.
C2_OneRunInFlight ==
    /\ Cardinality(InFlight) <= 1
    /\ InFlight # {} => isRefreshing

\* A waiting refresh() gave up after its last poll while the run it waited for
\* is still in flight.
C2_Witness ==
    /\ ev.kind = "waitDone" /\ ev.expired
    /\ Cardinality(InFlight) = 1

\* C3: when ingestion fails in a refresh() that began with a snapshot stored,
\* the stored snapshot is the one of before the call and refresh() returns it.
C3_StaleOnFailure ==
    (ev.kind = "ingestDone" /\ ~ev.ok /\ ev.pre # Null) =>
        /\ data = ev.pre
        /\ ev.out = "ok"
        /\ ev.snap = ev.pre
        /\ \A c \in DOMAIN ev.got : ev.got[c].out = "ok" /\ ev.got[c].snap = ev.pre

\* A caller's own refresh() failed over a stored snapshot.
C3_Witness ==
    /\ ev.kind = "ingestDone" /\ ~ev.ok /\ ev.pre # Null
    /\ ev.via = "refresh"

\* C4: when ingestion fails in a refresh() that began with no snapshot, the
\* call fails with the cache-refresh error and the cache is as before any
\* initialization: no snapshot, the refreshing flag cleared, no timer armed.
C4_FailureUninitialized ==
    (ev.kind = "ingestDone" /\ ~ev.ok /\ ev.pre = Null) =>
        /\ ev.out = "CacheRefreshFailed"
        /\ \A c \in DOMAIN ev.got : ev.got[c].out = "CacheRefreshFailed"
        /\ data = Null
        /\ ~isRefreshing
        /\ ~refreshTimer

\* A caller's own refresh() failed on an empty cache.
C4_Witness ==
    /\ ev.kind = "ingestDone" /\ ~ev.ok /\ ev.pre = Null
    /\ ev.via = "refresh"
    /\ DOMAIN ev.got = {ev.who}

\* The step is a call of initialize() made after a failed initialization, with
\* no snapshot stored.
RetryStep ==
    /\ lastInit = "failed" /\ data = Null
    /\ ev'.kind = "initializeCall"
    /\ \E c \in Callers : waitsOn[c] = 0 /\ waitsOn'[c] # 0

\* A failed initialization leaves no in-flight marker, no snapshot and no
\* caller waiting.
FailedInitIsReset ==
    (InitSettled /\ ev.out # "ok") =>
        /\ lastInit = "failed"
        /\ initPromise = NoPromise
        /\ data = Null
        /\ \A c \in Callers : waitsOn[c] = 0

\* C5 as stated: a failed initialize() leaves no in-flight marker and no
\* snapshot, and the next initialize() starts a new ingestion run.
C5_Original ==
    /\ []FailedInitIsReset
    /\ [][RetryStep =>
            \E c \in Callers :
                /\ initPromise' = PendingPromise(c)
                /\ waitsOn'[c] = c
                /\ pc'[c] = "run"
                /\ nRuns' = nRuns + 1]_vars

\* C5: (amended) a failed initialize() leaves no in-flight marker and no
\* snapshot, and the next initialize() called while no snapshot is stored starts
\* a new initialization of its own (it neither joins the failed one nor gets its
\* failure); that initialization starts a new ingestion run unless a refresh is
\* in flight, which it then waits for.
C5_Retryable ==
    /\ []FailedInitIsReset
    /\ [][RetryStep =>
            \E c \in Callers :
                /\ initPromise' = PendingPromise(c)
                /\ waitsOn'[c] = c
                /\ lastInit' = "none"
                /\ IF isRefreshing
                   THEN pc'[c] = "wait" /\ nRuns' = nRuns
                   ELSE pc'[c] = "run" /\ nRuns' = nRuns + 1]_vars

\* After a failed initialization a caller has started a new one, with a new
\* ingestion run.
C5_Witness ==
    /\ ev.kind = "initializeCall" /\ ev.how = "started"
    /\ nRuns >= 2
    /\ pc[ev.who] = "run"
    /\ data = Null

\* C6: each read accessor fails with the not-initialized error exactly when no
\* snapshot is stored, also while the first ingestion is in flight, and
\* succeeds when one is stored.
C6_ReadsNeedSnapshot ==
    /\ \A acc \in Accessors :
          Access(acc, data).out = (IF data = Null THEN "CacheNotInitialized" ELSE "ok")
    /\ ev.kind = "read" =>
          \A acc \in Accessors :
              ev.got[acc].out = (IF data = Null THEN "CacheNotInitialized" ELSE "ok")

\* A reader was refused while the first ingestion was in flight.
C6_Witness ==
    /\ ev.kind = "read"
    /\ initPromise.st = "pending" /\ InFlight # {}
    /\ \A acc \in Accessors : ev.got[acc].out = "CacheNotInitialized"

\* C7: a step of the read accessors and isInitialized() leaves the snapshot,
\* the refreshing flag, the in-flight marker and the timer as they were, and
\* starts no ingestion run.
C7_ReadsChangeNothing ==
    [][ev'.kind = "read" =>
          /\ UNCHANGED <<data, isRefreshing, initPromise, refreshTimer>>
          /\ nRuns' = nRuns
          /\ InFlight' = InFlight]_vars

\* A reader was refused on a cache nobody has initialized, and no run started.
C7_Witness ==
    /\ ev.kind = "read" /\ ~ev.initialized
    /\ nRuns = 0 /\ ~isRefreshing /\ initPromise = NoPromise

\* Every part of the snapshot d comes from the ingestion run that stamped it.
OfOneRun(d) ==
    /\ \A i \in 1..Len(d.tasks) : d.tasks[i].run = d.lastRefresh
    /\ \A i \in 1..Len(d.sites) : d.sites[i].run = d.lastRefresh
    /\ d.packageCompliance.run = d.lastRefresh

\* C8: in every reachable state the tasks, sites, package compliance and
\* lastRefresh the accessors show come from one ingestion run, and so do the
\* tasks and lastRefresh of one GET /api/tasks response.
C8_SnapshotOfOneRun ==
    /\ data # Null => OfOneRun(data)
    /\ (ev.kind = "read" /\ ev.initialized) =>
          /\ OfOneRun(ev.got["getData"].val)
          /\ ev.got["getTasks"].val = ev.got["getData"].val.tasks
          /\ ev.got["getSites"].val = ev.got["getData"].val.sites
          /\ ev.got["getPackageCompliance"].val = ev.got["getData"].val.packageCompliance
    /\ (ev.kind = "tasksRead" /\ ev.resp.status = 200) =>
          \A i \in 1..Len(ev.resp.data) : ev.resp.data[i].run = ev.resp.lastRefresh

\* GET /api/tasks answered from the second snapshot while a third ingestion was
\* in flight.
C8_Witness ==
    /\ ev.kind = "tasksRead" /\ ev.resp.status = 200
    /\ ev.resp.lastRefresh = 2
    /\ InFlight # {}

\* The k-th index, in increasing order, of the set of indices idx.
Kth(idx, k) == CHOOSE i \in idx : Cardinality({j \in idx : j <= i}) = k

\* r lists exactly the elements of all at the indices idx, in their order in all.
ListsExactly(r, all, idx) ==
    /\ Len(r) = Cardinality(idx)
    /\ \A k \in 1..Len(r) : r[k] = all[Kth(idx, k)]

\* A filter is given when it is a non-empty string.
Given(x) == x # <<>> /\ x[1] # ""

\* C9: on every stored snapshot getTasksBySite(x) returns exactly the tasks of
\* getTasks() whose site id is x, in their order there (none for an unknown x),
\* and getFilteredSites returns exactly the sites of getSites() that match every
\* filter given (a non-empty string), in their order: all of them when none is.
C9_PureFilters ==
    /\ ev.kind = "bySite" =>
          /\ ev.got.out = "ok"
          /\ ListsExactly(ev.got.val, GetTasks(data).val,
                          {i \in 1..Len(data.tasks) : data.tasks[i].site_uid = ev.arg})
    /\ ev.kind = "filtered" =>
          /\ ev.got.out = "ok"
          /\ ListsExactly(ev.got.val, GetSites(data).val,
                          {i \in 1..Len(data.sites) :
                              /\ Given(ev.arg.packageId) => data.sites[i].package_id = ev.arg.packageId[1]
                              /\ Given(ev.arg.district) => data.sites[i].district = ev.arg.district[1]})
          /\ (~Given(ev.arg.packageId) /\ ~Given(ev.arg.district)) => ev.got.val = GetSites(data).val

\* Both filters were given and kept the second of two sites only.
C9_Witness ==
    /\ ev.kind = "filtered"
    /\ Given(ev.arg.packageId) /\ Given(ev.arg.district)
    /\ Len(data.sites) = 2
    /\ ev.got.val = <<data.sites[2]>>

\* The records the sources resolved with, as <<source, row>> places.
Places == {pl \in Sources \X (1..MaxRows) : pl[2] <= Len(fetched[pl[1]])}

\* Place a comes before place b: source-declaration order, then row order.
Before(a, b) == a[1] < b[1] \/ (a[1] = b[1] /\ a[2] < b[2])

\* C10: the de-duplicated tasks hold each fetched task id exactly once, the record
\* kept for an id is the first one in source-declaration order and then row
\* order, the kept records follow that same order, and none of it depends on
\* the order in which the fetches completed.
C10_DedupFirstWins ==
    merged.st = "done" =>
        LET m == merged.uniqueTasks
        IN /\ \A i, j \in 1..Len(m) : m[i].task_uid = m[j].task_uid => i = j
           /\ {m[i].task_uid : i \in 1..Len(m)} = {fetched[pl[1]][pl[2]].task_uid : pl \in Places}
           /\ \A i \in 1..Len(m) :
                 /\ <<m[i].src, m[i].row>> \in Places
                 /\ m[i] = fetched[m[i].src][m[i].row]
                 /\ \A pl \in Places :
                       fetched[pl[1]][pl[2]].task_uid = m[i].task_uid =>
                           ~Before(pl, <<m[i].src, m[i].row>>)
           /\ \A i, j \in 1..Len(m) :
                 i < j => Before(<<m[i].src, m[i].row>>, <<m[j].src, m[j].row>>)

\* The second source completed first, both list the same task id, and the merge
\* is done.
C10_Witness ==
    /\ merged.st = "done"
    /\ done[1] = 2
    /\ \E pa, pb \in Places :
          /\ pa[1] = 1 /\ pb[1] = 2
          /\ fetched[1][pa[2]].task_uid = fetched[2][pb[2]].task_uid

\* C11: a source whose fetch or parse fails never aborts the pipeline: the
\* pipeline does not fail while some source succeeded, a failing source
\* contributes no record, and every record of a succeeding source is in the
\* merged result, itself or, for a repeated task id, the first record of that id.
C11_SourceFailureIsolated ==
    /\ merged.st = "failed" => threw = Sources
    /\ \A s \in threw : fetched[s] = <<>>
    /\ merged.st = "done" =>
          LET m == merged.uniqueTasks
          IN /\ \A i \in 1..Len(m) : m[i].src \notin threw
             /\ \A s \in Sources \ threw : \A r \in 1..Len(fetched[s]) :
                   \E i \in 1..Len(m) :
                      /\ m[i].task_uid = fetched[s][r].task_uid
                      /\ m[i] = fetched[s][r] \/ Before(<<m[i].src, m[i].row>>, <<s, r>>)

\* The first source failed, the second one resolved with rows after it, and the
\* merge holds the rows of the second.
C11_Witness ==
    /\ merged.st = "done"
    /\ threw = {1}
    /\ done[1] = 1
    /\ Len(fetched[2]) >= 1
    /\ merged.uniqueTasks[1] = fetched[2][1]

\* A fetchAndCacheXLSX call settled in the last step.
FetchSettled == ev.kind \in {"lookup", "response", "put"} /\ ev.done

\* C12: populating the local blob cache is best-effort: fetchAndCacheXLSX fails
\* only when the network request fails or answers a non-success response,
\* whatever goes wrong in reading or writing the local cache.
C12_CacheBestEffort ==
    (FetchSettled /\ ev.out # "ok") => ev.network \in {"httpError", "networkError"}

\* C13: while a payload that a fetch stored under a URL is in the store (no
\* clearXLSXCache has removed it), a fetch of that URL returns it without a
\* network request; the first fetch of a URL after clearXLSXCache succeeded
\* performs a network request and stores what it gets under the URL.
C13_HitUntilInvalidate ==
    /\ (ev.kind = "lookup" /\ store[ev.url] # 0) =>
          ev.done /\ ev.out = "ok" /\ ev.blob = store[ev.url]
    /\ (ev.kind = "lookup" /\ ev.first) => ~ev.done /\ fx[ev.url].pc = "net"
    /\ (ev.kind = "put" /\ ev.first) => ev.out = "ok" /\ store[ev.url] = ev.blob

\* C14: a refresh() that finds a refresh in flight sleeps at most MaxAttempts
\* times (the code's 60) and then finishes, also when the ingestion it waits
\* for never completes: it returns the stored snapshot when there is one and
\* fails with the timeout error when there is none.
C14_BoundedWait ==
    /\ [](\A p \in Procs : pc[p] = "wait" => attempts[p] < MaxAttempts)
    /\ [](ev.kind = "waitDone" =>
            /\ ev.polls <= MaxAttempts
            /\ ev.expired => ev.polls = MaxAttempts
            /\ pc[ev.who] = "idle"
            /\ IF data # Null THEN ev.out = "ok" /\ ev.snap = data
               ELSE ev.out = "RefreshTimeout")
    /\ \A p \in Procs : (pc[p] = "wait") ~> (pc[p] = "idle")

\* A waiting refresh() used up its polls while the ingestion was still in
\* flight and no snapshot was stored: it failed with the timeout error.
C14_Witness ==
    /\ ev.kind = "waitDone" /\ ev.expired /\ ev.polls = MaxAttempts
    /\ data = Null /\ ev.out = "RefreshTimeout"
    /\ isRefreshing

\* C15: a refresh() that joined a refresh in flight observes its outcome: when
\* the wait ends before the bound with a snapshot stored it returns that
\* snapshot, and it fails with the timeout error only when its polls were used
\* up with the refresh still in flight and no snapshot stored, not when the
\* refresh it joined failed before the bound.
C15_LateCallerOutcome ==
    ev.kind = "waitDone" =>
        /\ (~ev.expired /\ data # Null) => ev.out = "ok" /\ ev.snap = data
        /\ ev.out = "RefreshTimeout" => ev.expired /\ data = Null

\* C16: a failure inside a timer-scheduled refresh is never surfaced: every
\* refresh() the interval callback started settles without raising, whether it
\* ran the ingestion or joined a refresh in flight, and when its ingestion
\* failed the snapshot stored before it is still stored and still what the
\* read accessors return.
C16_TimerFailureSilent ==
    (ev.kind \in {"ingestDone", "waitDone"} /\ ev.via = "timer") =>
        /\ ev.out = "ok"
        /\ ev.snap = data
        /\ GetData(data) = Returned(data)
        /\ (ev.kind = "ingestDone" /\ ~ev.ok) => data = ev.pre /\ data # Null

C16_Witness ==
    /\ ev.kind = "ingestDone" /\ ev.via = "timer" /\ ~ev.ok
    /\ ev.out = "ok" /\ data = ev.pre /\ refreshTimer

\* C17: initialize() called while a snapshot is stored is a no-op: the call
\* returns at once (its caller is neither running nor waiting afterwards), no
\* ingestion run is started, the timer is neither armed nor re-armed, and the
\* snapshot, the in-flight flag and initPromise are what they were.
C17_InitializeNoop ==
    [][(data # Null /\ ev'.kind = "initializeCall") =>
          UNCHANGED <<data, refreshTimer, isRefreshing, initPromise, pc, attempts,
                      waitsOn, pre, lastInit, nRuns>>]_vars

C17_Witness ==
    /\ ev.kind = "initializeCall" /\ ev.how = "noop"
    /\ data # Null /\ initPromise = NoPromise /\ ~refreshTimer
    /\ pc[ev.who] = "idle" /\ waitsOn[ev.who] = 0

\* C18: stopAutoRefresh() is idempotent: called in any state it leaves no timer
\* armed and changes neither the snapshot, the in-flight flag, initPromise nor
\* any call under way, and a call that directly follows another changes no
\* field of the cache at all.
C18_StopIdempotent ==
    [][ev'.kind = "stop" =>
          /\ ~refreshTimer'
          /\ UNCHANGED <<data, isRefreshing, initPromise, pc, attempts, waitsOn,
                         pre, lastInit, nRuns>>
          /\ ev.kind = "stop" => UNCHANGED refreshTimer]_vars

C18_Witness ==
    /\ ev.kind = "stop" /\ ~ev.was /\ ~refreshTimer
    /\ lastInit = "ok" /\ data # Null /\ isRefreshing

\* C19: GET /api/tasks never answers 200 with task data unless a snapshot is
\* stored: with the cache not initialized the handler runs initialize() and is
\* suspended on it, a failed initialize() makes it answer 503 'Service
\* initializing' without a call of a read accessor, every 200 it answers is
\* given with a snapshot stored, and another method than GET is answered 405
\* with no accessor called and no field of the cache changed.
C19_TasksNeedSnapshot ==
    /\ [](\A c \in Callers : req[c].on => waitsOn[c] # 0)
    /\ []((ev.kind = "tasksRead" /\ ev.resp.status = 200) => data # Null)
    /\ [](ev.kind \in {"ingestDone", "waitDone"} =>
            \A c \in DOMAIN ev.answers :
                LET a == ev.answers[c]
                IN /\ a.resp.status = 200 => data # Null /\ ev.out = "ok"
                   /\ ev.out # "ok" =>
                        /\ a.resp = [status |-> 503, error |-> "Service initializing"]
                        /\ a.accessed = {})
    /\ [](ev.kind = "tasksReject" => ev.resp.status = 405 /\ ev.accessed = {})
    /\ [][ev'.kind = "tasksReject" => UNCHANGED <<cacheState, req>>]_vars
    /\ [][\A c \in Callers : (~req[c].on /\ req'[c].on) =>
              /\ data = Null /\ ev'.kind = "initializeCall" /\ ev'.who = c
              /\ waitsOn'[c] # 0]_vars

C19_Witness ==
    /\ ev.kind = "ingestDone" /\ ~ev.ok /\ data = Null
    /\ \E c \in DOMAIN ev.answers :
          /\ ev.answers[c].resp.status = 503
          /\ ev.answers[c].accessed = {}
          /\ ~req[c].on

\* C20: GET /api/health reports the cache lifecycle: 200 when a snapshot is
\* stored, 500 when the cache is empty and its latest initialization has failed,
\* 503 while the cache is empty otherwise (initialization under way or not yet
\* begun); and the handler starts no ingestion run and changes no field of the
\* cache.
C20_HealthLifecycle ==
    /\ []((ev.kind = "health" /\ ev.method = "GET") =>
            ev.resp.status = IF data # Null THEN 200
                             ELSE IF lastInit = "failed" THEN 500 ELSE 503)
    /\ [][ev'.kind = "health" => UNCHANGED <<cacheState, req>>]_vars

\* C21: isInitialized() is true exactly when a snapshot is stored, a refresh in
\* flight or not, and a stored snapshot is never removed: no step of the cache
\* (a failed or timed-out refresh, initialize(), stopAutoRefresh(), a timer
\* tick, a request) leads from a state with a snapshot to one without.
C21_InitializedIsStable ==
    /\ [](ev.kind = "read" => (ev.initialized <=> data # Null))
    /\ [](ev.kind = "health" /\ ev.method = "GET" =>
            (ev.resp.status = 200 <=> data # Null))
    /\ [][data # Null => data' # Null]_vars

C21_Witness ==
    /\ ev.kind = "read" /\ ev.initialized
    /\ data # Null /\ isRefreshing /\ ~refreshTimer /\ lastInit = "failed"

\* C22: once stopAutoRefresh() has returned the refresh loop stays cancelled:
\* the timer is not armed in any later state, no later step is a firing of the
\* timer, and no later step arms the timer, whatever initialize() calls were
\* in flight at the time or are made afterwards.
C22_StaysCancelled ==
    /\ [](stopped => ~refreshTimer)
    /\ [][stopped => ev'.kind # "tick" /\ ~refreshTimer']_vars

\* C23: the auto-refresh timer is armed only after a successful initialization:
\* whenever the timer is armed a snapshot is stored and the latest
\* initialization succeeded, at no time is more than one interval live, and
\* setInterval is called at most once over the lifetime of the cache.
C23_ArmedOnceAfterInit ==
    /\ refreshTimer => data # Null /\ lastInit = "ok"
    /\ intervals.live = (IF refreshTimer THEN 1 ELSE 0)
    /\ intervals.live <= 1
    /\ intervals.set <= 1

C23_Witness ==
    /\ ev.kind = "ingestDone" /\ ev.via = "initialize" /\ ev.ok
    /\ refreshTimer /\ intervals = [set |-> 1, live |-> 1]
    /\ data # Null /\ nRuns > 1

\* C24: isRefreshing is true exactly while an ingestion run is in flight: it is
\* set by the refresh() that starts a run, cleared when that run's ingestion
\* settles with success or with failure, and left alone by a refresh() that
\* waits (when it joins, at each poll, and when its wait ends); so, every
\* ingestion settling, a set flag is eventually cleared, and a refresh() called
\* with the flag cleared starts a run of its own.
C24_FlagTracksRun ==
    /\ [](isRefreshing <=> InFlight # {})
    /\ [](Cardinality(InFlight) <= 1)
    /\ [][(ev'.kind \in {"poll", "waitDone"}) => UNCHANGED isRefreshing]_vars
    /\ [][(isRefreshing /\ ev'.kind \in {"refreshCall", "tick", "initializeCall"}) =>
              isRefreshing' /\ InFlight' = InFlight]_vars
    /\ [][(isRefreshing # isRefreshing') =>
              IF isRefreshing
              THEN ev'.kind = "ingestDone" /\ InFlight = {ev'.who}
              ELSE InFlight' = {ev'.who} /\ ev'.kind \in {"refreshCall", "tick", "initializeCall"}]_vars
    /\ [][(~isRefreshing /\ ev'.kind = "refreshCall") =>
              isRefreshing' /\ pc'[ev'.who] = "run" /\ nRuns' = nRuns + 1]_vars
    /\ (isRefreshing ~> ~isRefreshing)

C24_Witness ==
    /\ ev.kind = "ingestDone" /\ ~ev.ok /\ ~isRefreshing
    /\ InFlight = {}
    /\ \E p \in Procs : pc[p] = "wait"

====
